---------------------------- MODULE Spec2Model ----------------------------
(***************************************************************************)
(* A model of the two example scripts                                      *)
(*   docs/source/examples/gym/a2c_gym_pendulumnovel.py   (A2C, Pendulum)   *)
(*   docs/source/examples/isaacgym/trpo_cartpole.py      (TRPO, Cartpole)  *)
(* Each script is a straight-line program: load an environment, build the  *)
(* models, a rollout memory, a configuration dictionary, an agent and a    *)
(* trainer, then call trainer.train().  The module has one specification   *)
(* per part of the scripts:                                                *)
(*   SpecLoader  the try/except environment loader of the TRPO script      *)
(*   SpecEnv     the PendulumNoVel-v1 vector environment of the A2C script *)
(*   SpecPolicy  Policy.compute of both scripts                            *)
(*   SpecCfg     the configuration blocks of both scripts                  *)
(*   SpecTrain   model construction to the end of trainer.train()          *)
(* Numbers with a fractional part are held in fixed point, in units of     *)
(* 1/FixedOne.                                                             *)
(***************************************************************************)
EXTENDS Integers, Sequences, FiniteSets, TLC

VARIABLES
    script,      \* which script runs: "a2c" or "trpo"
    pc,          \* the position in the script
    op,          \* the operation that ran last
    \* ---- the environment loader (trpo_cartpole.py:57-62)
    env,         \* the binding of the name env
    caught,      \* the exception bound to e in the except clause
    printed,     \* what print() has written
    calls,       \* the loaders and later steps called, in order
    raised,      \* the exception that ended the script, or "none"
    \* ---- the vector environment (a2c_gym_pendulumnovel.py:52-62)
    raw,         \* per instance: the observation Pendulum-v1 produced
    obs,         \* per instance: the observation delivered to the agent
    vi,          \* the vector environment's loop index
    \* ---- Policy.compute
    weight, bias, state,   \* the network's parameters and its input
    mean,        \* the action mean returned by compute
    \* ---- the configuration block
    heap,        \* the dictionaries, by object identity
    cfg,         \* the object bound to cfg_a2c / cfg_trpo
    cfg2,        \* the first configuration, once a second one is copied from the defaults
    line,        \* the next assignment of the block
    device,      \* env.device
    \* ---- training
    timestep,    \* the trainer's loop variable
    envSteps,    \* calls of env.step so far
    memory_index,\* RandomMemory: the next slot written
    filled,      \* RandomMemory: the buffer wrapped around
    slots,       \* per slot: "empty", "fresh" (stored, not yet used by an update), "used"
    lost,        \* transitions overwritten before any update used them
    rollout,     \* the agent's rollout counter
    updates,     \* completed calls of the agent's update
    epoch, batch,\* position inside update
    feeds,       \* per slot: times fed to the learning step in this update
    epochFeeds,  \* per slot: times fed in this learning epoch
    params       \* per model: the version of its parameters

loaderVars == <<env, caught, printed, calls, raised>>
envVars    == <<raw, obs, vi>>
policyVars == <<weight, bias, state, mean>>
cfgVars    == <<heap, cfg, cfg2, line, device>>
trainVars  == <<timestep, envSteps, memory_index, filled, slots, lost, rollout,
                updates, epoch, batch, feeds, epochFeeds, params>>
vars == <<script, pc, op, loaderVars, envVars, policyVars, cfgVars, trainVars>>

Scripts == {"a2c", "trpo"}

\* The values of the variables a specification does not use.
NoEnv == [obj |-> 0, wrapped |-> FALSE]
IdleLoader == env = NoEnv /\ caught = "none" /\ printed = <<>> /\ calls = <<>> /\ raised = "none"
IdleEnv    == raw = <<>> /\ obs = <<>> /\ vi = 0
IdlePolicy == weight = 0 /\ bias = 0 /\ state = 0 /\ mean = 0
IdleCfg    == heap = <<>> /\ cfg = 0 /\ cfg2 = 0 /\ line = 0 /\ device = ""
IdleTrain  == /\ timestep = 0 /\ envSteps = 0 /\ memory_index = 0 /\ filled = FALSE
              /\ slots = <<>> /\ lost = 0 /\ rollout = 0 /\ updates = 0
              /\ epoch = 0 /\ batch = 0 /\ feeds = <<>> /\ epochFeeds = <<>>
              /\ params = [policy |-> 0, value |-> 0]

-----------------------------------------------------------------------------
(***************************************************************************)
(* The environment loader: trpo_cartpole.py:57-62.                         *)
(***************************************************************************)

\* How many distinct environment objects a loader may return.
NumHandles == 3
Handles == 1..NumHandles

\* What a loader can raise.  The first two derive from Exception; the last
\* two derive from BaseException only (a Ctrl-C, a sys.exit() in the loader).
ExceptionKinds     == {"RuntimeError", "ImportError"}
BaseExceptionKinds == {"KeyboardInterrupt", "SystemExit"}
Raisable == ExceptionKinds \cup BaseExceptionKinds

\* A narrower clause, `except ImportError as e`.
ExceptMatchesImportOnly(x) == x = "ImportError"

\* `except Exception as e` (line 59) matches the classes derived from Exception.
ExceptMatches(x) == x \in ExceptionKinds

\* The outcomes of a call of a loader: it returns an environment or raises.
Outcomes == [kind : {"return"}, val : Handles] \cup [kind : {"raise"}, exc : Raisable]

Returned(v) == [kind |-> "return", val |-> v]

\* wrap_env(env) (line 62): the wrapper around the environment it is given.
WrapEnv(e) == [e EXCEPT !.wrapped = TRUE]

\* The steps of the script after wrap_env, in order (lines 64-113).
LaterSteps == <<"memory", "models", "init_parameters", "cfg", "agent", "trainer", "train">>

\* line 58: env = load_isaacgym_env_preview4(task_name="Cartpole")
LoadPreview4 ==
    /\ pc = "try"
    /\ \E o \in Outcomes :
         /\ calls' = Append(calls, [fn |-> "load_isaacgym_env_preview4", out |-> o])
         /\ IF o.kind = "return"
               THEN env' = [obj |-> o.val, wrapped |-> FALSE] /\ pc' = "wrap" /\ UNCHANGED <<caught, raised>>
               ELSE IF ExceptMatches(o.exc)
                       THEN caught' = o.exc /\ pc' = "except" /\ UNCHANGED <<env, raised>>
                       ELSE raised' = o.exc /\ pc' = "terminated" /\ UNCHANGED <<env, caught>>
    /\ UNCHANGED <<script, op, printed, envVars, policyVars, cfgVars, trainVars>>

\* line 60: print("Isaac Gym (preview 3/4) failed: {}\nTrying preview 2...".format(e))
PrintFailure ==
    /\ pc = "except"
    /\ printed' = Append(printed, caught)
    /\ pc' = "retry"
    /\ UNCHANGED <<script, op, env, caught, calls, raised, envVars, policyVars, cfgVars, trainVars>>

\* line 61: env = load_isaacgym_env_preview2("Cartpole"), inside the except clause
LoadPreview2 ==
    /\ pc = "retry"
    /\ \E o \in Outcomes :
         /\ calls' = Append(calls, [fn |-> "load_isaacgym_env_preview2", out |-> o])
         /\ IF o.kind = "return"
               THEN env' = [obj |-> o.val, wrapped |-> FALSE] /\ pc' = "wrap" /\ raised' = raised
               ELSE raised' = o.exc /\ pc' = "terminated" /\ env' = env
    /\ UNCHANGED <<script, op, caught, printed, envVars, policyVars, cfgVars, trainVars>>

\* line 62: env = wrap_env(env)
WrapLoaded ==
    /\ pc = "wrap"
    /\ calls' = Append(calls, [fn |-> "wrap_env", out |-> Returned(env.obj)])
    /\ env' = WrapEnv(env)
    /\ pc' = "later"
    /\ UNCHANGED <<script, op, caught, printed, raised, envVars, policyVars, cfgVars, trainVars>>

\* The steps after wrap_env that have run, and whether all have.
LaterDone == Len(SelectSeq(calls, LAMBDA c : \E i \in 1..Len(LaterSteps) : LaterSteps[i] = c.fn))

\* lines 64-113, one statement group at a time
LaterStep ==
    /\ pc = "later"
    /\ LaterDone < Len(LaterSteps)
    /\ calls' = Append(calls, [fn |-> LaterSteps[LaterDone + 1], out |-> Returned(0)])
    /\ pc' = IF LaterDone + 1 = Len(LaterSteps) THEN "finished" ELSE "later"
    /\ UNCHANGED <<script, op, env, caught, printed, raised, envVars, policyVars, cfgVars, trainVars>>

\* lines 64-113: nothing handles a failure of these statements, it ends the script
LaterFail ==
    /\ pc = "later"
    /\ LaterDone < Len(LaterSteps)
    /\ \E x \in Raisable : raised' = x
    /\ pc' = "terminated"
    /\ UNCHANGED <<script, op, env, caught, printed, calls, envVars, policyVars, cfgVars, trainVars>>

InitLoader ==
    /\ script = "trpo" /\ pc = "try" /\ op = "none"
    /\ IdleLoader /\ IdleEnv /\ IdlePolicy /\ IdleCfg /\ IdleTrain

NextLoader ==
    LoadPreview4 \/ PrintFailure \/ LoadPreview2 \/ WrapLoaded \/ LaterStep \/ LaterFail

SpecLoader == InitLoader /\ [][NextLoader]_vars

\* ---- C1

\* The calls of a loader made so far.
CallsOf(f) == SelectSeq(calls, LAMBDA c : c.fn = f)
Called(f) == Len(CallsOf(f)) > 0
PrimaryOut == CallsOf("load_isaacgym_env_preview4")[1].out
SecondaryOut == CallsOf("load_isaacgym_env_preview2")[1].out
\* The try statement has been left: by falling through, or by a failure propagating.
PastTry == pc \in {"wrap", "later", "finished", "terminated"}

\* C1 as stated: the secondary loader is invoked if and only if the primary
\* loader raises, whatever it raises; the secondary loader's environment
\* becomes env unchanged, and its failure propagates with no later step run.
C1_AnyFailureFallsBack ==
    PastTry =>
        /\ Called("load_isaacgym_env_preview2") <=> PrimaryOut.kind = "raise"
        /\ Called("load_isaacgym_env_preview2") /\ SecondaryOut.kind = "return" /\ pc = "wrap"
              => env = [obj |-> SecondaryOut.val, wrapped |-> FALSE]
        /\ Called("load_isaacgym_env_preview2") /\ SecondaryOut.kind = "raise"
              => pc = "terminated" /\ raised = SecondaryOut.exc /\ ~ Called("wrap_env")
                 /\ LaterDone = 0

\* C1 amended: the secondary loader is invoked if and only if the primary
\* loader raises a failure derived from Exception; a failure derived from
\* BaseException only (KeyboardInterrupt, SystemExit) propagates at once with
\* no loader and no later step called.  The secondary loader's environment
\* becomes env unchanged, and its failure propagates with no later step run.
C1_ExceptionFallsBack ==
    PastTry =>
        /\ Called("load_isaacgym_env_preview2")
              <=> (PrimaryOut.kind = "raise" /\ PrimaryOut.exc \in ExceptionKinds)
        /\ PrimaryOut.kind = "raise" /\ PrimaryOut.exc \in BaseExceptionKinds
              => pc = "terminated" /\ raised = PrimaryOut.exc /\ Len(calls) = 1
        /\ Called("load_isaacgym_env_preview2") /\ SecondaryOut.kind = "return" /\ pc = "wrap"
              => env = [obj |-> SecondaryOut.val, wrapped |-> FALSE]
        /\ Called("load_isaacgym_env_preview2") /\ SecondaryOut.kind = "return"
              => env.obj = SecondaryOut.val
        /\ Called("load_isaacgym_env_preview2") /\ SecondaryOut.kind = "raise"
              => pc = "terminated" /\ raised = SecondaryOut.exc /\ ~ Called("wrap_env")
                 /\ LaterDone = 0

\* The primary loader raised a RuntimeError, the secondary loader returned an
\* environment, and the script went on to train with it.
C1_Witness ==
    /\ pc = "finished"
    /\ PrimaryOut = [kind |-> "raise", exc |-> "RuntimeError"]
    /\ Called("load_isaacgym_env_preview2") /\ SecondaryOut.kind = "return"
    /\ env = [obj |-> SecondaryOut.val, wrapped |-> TRUE]
    /\ printed = <<"RuntimeError">>

-----------------------------------------------------------------------------
(***************************************************************************)
(* The vector environment of the A2C script:                               *)
(* a2c_gym_pendulumnovel.py:52-62.  gym.vector.make builds num_envs        *)
(* instances from the registered entry point, each a NoVelocityWrapper     *)
(* around Pendulum-v1, and resets and steps them one after the other.  An  *)
(* ObservationWrapper passes what its environment's reset and step return  *)
(* through observation().                                                  *)
(***************************************************************************)

\* line 61: num_envs=4
NumEnvs == 4
EnvIds == 1..NumEnvs

\* Observations Pendulum-v1 produces: (cos, sin, angular velocity), the
\* velocity within [-8, 8], in units of 1/100.
RawObservations == {<<100, 0, 0>>, <<0, 100, 800>>, <<-100, 0, -800>>, <<0, -100, 25>>}

\* A mask that drops the velocity and the second component.
MaskDropsTwo == <<1, 0, 0>>

\* line 56: np.array([1, 1, 0])
Mask == <<1, 1, 0>>

\* line 54-56: NoVelocityWrapper.observation: the elementwise product
Observation(o) == [k \in 1..Len(o) |-> o[k] * Mask[k]]

\* A reset that hands out the inner environment's observation as it is.
ResetUnwrapped(o) == o

\* line 53: gym.ObservationWrapper.reset returns self.observation(env.reset())
ResetObservation(o) == Observation(o)

\* line 53: gym.ObservationWrapper.step returns self.observation(observation), ...
StepObservation(o) == Observation(o)

\* line 58, 61: register the id and build the vector environment
MakeVector ==
    /\ pc = "make"
    /\ raw' = [i \in EnvIds |-> <<>>]
    /\ obs' = [i \in EnvIds |-> <<>>]
    /\ vi' = 0
    /\ pc' = "ready" /\ op' = "make"
    /\ UNCHANGED <<script, loaderVars, policyVars, cfgVars, trainVars>>

\* env.reset(): begin the loop over the instances
ResetBegin ==
    /\ pc = "ready"
    /\ vi' = 1 /\ pc' = "reset" /\ op' = "reset"
    /\ UNCHANGED <<script, raw, obs, loaderVars, policyVars, cfgVars, trainVars>>

\* env.reset(): one instance
ResetEnv ==
    /\ pc = "reset"
    /\ \E r \in RawObservations :
         /\ raw' = [raw EXCEPT ![vi] = r]
         /\ obs' = [obs EXCEPT ![vi] = ResetObservation(r)]
    /\ vi' = IF vi = NumEnvs THEN 0 ELSE vi + 1
    /\ pc' = IF vi = NumEnvs THEN "ready" ELSE "reset"
    /\ op' = "reset"
    /\ UNCHANGED <<script, loaderVars, policyVars, cfgVars, trainVars>>

\* env.step(actions): begin the loop over the instances
StepBegin ==
    /\ pc = "ready"
    /\ \A i \in EnvIds : raw[i] # <<>>
    /\ vi' = 1 /\ pc' = "step" /\ op' = "step"
    /\ UNCHANGED <<script, raw, obs, loaderVars, policyVars, cfgVars, trainVars>>

\* env.step(actions): one instance; at the end of an episode the instance is
\* reset and the observation of the reset is the one delivered
StepEnv ==
    /\ pc = "step"
    /\ \E r \in RawObservations, done \in BOOLEAN :
         IF done
            THEN \E r0 \in RawObservations :
                   /\ raw' = [raw EXCEPT ![vi] = r0]
                   /\ obs' = [obs EXCEPT ![vi] = ResetObservation(r0)]
                   /\ op' = "autoreset"
            ELSE /\ raw' = [raw EXCEPT ![vi] = r]
                 /\ obs' = [obs EXCEPT ![vi] = StepObservation(r)]
                 /\ op' = "step"
    /\ vi' = IF vi = NumEnvs THEN 0 ELSE vi + 1
    /\ pc' = IF vi = NumEnvs THEN "ready" ELSE "step"
    /\ UNCHANGED <<script, loaderVars, policyVars, cfgVars, trainVars>>

InitEnv ==
    /\ script = "a2c" /\ pc = "make" /\ op = "none"
    /\ IdleLoader /\ IdleEnv /\ IdlePolicy /\ IdleCfg /\ IdleTrain

NextEnv == MakeVector \/ ResetBegin \/ ResetEnv \/ StepBegin \/ StepEnv

SpecEnv == InitEnv /\ [][NextEnv]_vars

\* ---- C2

\* The instances whose observation has been delivered.
Delivered == {i \in DOMAIN obs : obs[i] # <<>>}

\* C2: observation() zeroes component 3 (the angular velocity) and leaves
\* components 1 and 2 as they were, for every observation of three
\* components; equal inputs give equal outputs.
C2_MaskZeroesVelocityOnly ==
    /\ \A i \in Delivered :
         /\ Len(obs[i]) = 3
         /\ obs[i][3] = 0
         /\ obs[i][1] = raw[i][1]
         /\ obs[i][2] = raw[i][2]
    /\ \A i, j \in Delivered : raw[i] = raw[j] => obs[i] = obs[j]

\* An observation with a velocity other than zero and components 1 and 2
\* other than zero between them has been passed through observation().
C2_Witness ==
    \E i, j \in Delivered :
        /\ raw[i][3] # 0 /\ raw[i][2] # 0 /\ obs[i][3] = 0
        /\ raw[j][3] # 0 /\ raw[j][1] # 0 /\ obs[j][3] = 0

\* ---- C10

\* C10: every observation the vector environment delivers has an angular
\* velocity of zero, in each of the 4 instances, after any sequence of
\* resets, steps and automatic resets.
C10_NoVelocityDelivered ==
    \A i \in Delivered : obs[i][3] = 0

\* All 4 instances hold an observation whose velocity Pendulum-v1 gave as
\* other than zero, the last of them delivered by an automatic reset.
C10_Witness ==
    /\ op = "autoreset" /\ pc = "ready"
    /\ Delivered = EnvIds
    /\ \A i \in EnvIds : raw[i][3] # 0 /\ obs[i][3] = 0

-----------------------------------------------------------------------------
(***************************************************************************)
(* Policy.compute: a2c_gym_pendulumnovel.py:20-35 and                      *)
(* trpo_cartpole.py:24-38.  Both networks are Linear, activation, Linear,  *)
(* activation, Linear; the model keeps one unit per layer.                 *)
(***************************************************************************)

\* 1.0 in fixed point.
FixedOne == 100

\* The largest magnitude of a layer's weight, in whole units.
MaxWeight == 3
Weights == {k * FixedOne : k \in -MaxWeight..MaxWeight}
Biases  == {-FixedOne, FixedOne}
States  == {-2 * FixedOne, 0, 2 * FixedOne}

Abs(x) == IF x < 0 THEN -x ELSE x

\* nn.Linear with one input and one output: w * x + b
Linear(w, b, x) == (w * x) \div FixedOne + b

\* nn.ReLU
ReLU(x) == IF x > 0 THEN x ELSE 0

\* nn.ELU: x above zero, exp(x) - 1 below, the latter as x / (1 - x)
ELU(x) == IF x > 0 THEN x ELSE (FixedOne * x) \div (FixedOne - x)

\* torch.tanh: x (27 + x^2) / (27 + 9 x^2) up to 3, saturated at 1 beyond
Tanh(x) ==
    IF x >= 3 * FixedOne THEN FixedOne
    ELSE IF x <= -(3 * FixedOne) THEN -FixedOne
    ELSE (x * (27 * FixedOne * FixedOne + x * x)) \div (27 * FixedOne * FixedOne + 9 * x * x)

\* a2c_gym_pendulumnovel.py:26-30: self.net
NetA2C(w, b, x) == Linear(w[3], b[3], ReLU(Linear(w[2], b[2], ReLU(Linear(w[1], b[1], x)))))

\* trpo_cartpole.py:30-34: self.net
NetTRPO(w, b, x) == Linear(w[3], b[3], ELU(Linear(w[2], b[2], ELU(Linear(w[1], b[1], x)))))

\* The mean without the tanh: 2 * self.net(...)
ComputeA2CUnsquashed(w, b, x) == 2 * NetA2C(w, b, x)

\* a2c_gym_pendulumnovel.py:35: 2 * torch.tanh(self.net(inputs["states"]))
ComputeA2C(w, b, x) == 2 * Tanh(NetA2C(w, b, x))

\* trpo_cartpole.py:38: self.net(states)
ComputeTRPO(w, b, x) == NetTRPO(w, b, x)

\* The bounds of the action space: Pendulum-v1 is -2 to 2
\* (a2c_gym_pendulumnovel.py:34), Isaac Gym's Cartpole -1 to 1.
ActionBound(sc) == IF sc = "a2c" THEN 2 * FixedOne ELSE FixedOne

\* Policy.compute(...)[0]
Compute ==
    /\ pc = "compute"
    /\ mean' = IF script = "a2c" THEN ComputeA2C(weight, bias, state)
                                 ELSE ComputeTRPO(weight, bias, state)
    /\ pc' = "computed" /\ op' = "compute"
    /\ UNCHANGED <<script, weight, bias, state, loaderVars, envVars, cfgVars, trainVars>>

\* the next state arrives
NextState ==
    /\ pc = "computed"
    /\ \E x \in States : state' = x
    /\ pc' = "compute" /\ op' = "state"
    /\ UNCHANGED <<script, weight, bias, mean, loaderVars, envVars, cfgVars, trainVars>>

InitPolicy ==
    /\ script \in Scripts /\ pc = "compute" /\ op = "none"
    /\ weight \in [1..3 -> Weights] /\ bias \in [1..3 -> Biases] /\ state \in States
    /\ mean = 0
    /\ IdleLoader /\ IdleEnv /\ IdleCfg /\ IdleTrain

NextPolicy == Compute \/ NextState

SpecPolicy == InitPolicy /\ [][NextPolicy]_vars

\* ---- C3

\* C3 as stated: in both scripts the mean Policy.compute returns lies within
\* the bounds of the environment's action space.
C3_EveryPolicyBounded ==
    op = "compute" => Abs(mean) <= ActionBound(script)

\* C3 amended: the mean of the A2C Pendulum policy is 2 tanh(net) and lies
\* within -2 to 2 for every finite input; the TRPO Cartpole policy returns
\* the output of its network as it is, with no tanh.
C3_A2CBoundedTRPORaw ==
    op = "compute" =>
        /\ script = "a2c" => Abs(mean) <= 2 * FixedOne
        /\ script = "trpo" => mean = NetTRPO(weight, bias, state)

\* The A2C policy has squashed a network output of magnitude above 2 to
\* exactly the bound.
C3_Witness ==
    /\ op = "compute" /\ script = "a2c"
    /\ Abs(NetA2C(weight, bias, state)) > 2 * FixedOne
    /\ Abs(mean) = 2 * FixedOne

-----------------------------------------------------------------------------
(***************************************************************************)
(* The configuration blocks: a2c_gym_pendulumnovel.py:82-101 and           *)
(* trpo_cartpole.py:85-98.  Dictionaries are objects on a heap; a value is *)
(* a scalar (val) or a reference to another dictionary (ref).              *)
(***************************************************************************)

V(x) == [ref |-> 0, val |-> x]
R(id) == [ref |-> id, val |-> ""]

\* The objects: the library's default configuration, its nested
\* "experiment" dictionary, the script's configuration, a second copy.
DefaultId    == 1
ExperimentId == 2
CfgId        == 3
Cfg2Id       == 4

\* The library's defaults: DEFAULT_CONFIG["experiment"]
ExperimentDefaults ==
    "directory" :> V("") @@ "experiment_name" :> V("") @@ "write_interval" :> V("250")
    @@ "checkpoint_interval" :> V("1000") @@ "store_separately" :> V("False")

\* The library's defaults: A2C_DEFAULT_CONFIG
A2CDefaults ==
    "rollouts" :> V("16") @@ "mini_batches" :> V("1") @@ "discount_factor" :> V("0.99")
    @@ "lambda" :> V("0.95") @@ "learning_rate" :> V("1e-3")
    @@ "learning_rate_scheduler" :> V("None") @@ "learning_rate_scheduler_kwargs" :> V("{}")
    @@ "state_preprocessor" :> V("None") @@ "state_preprocessor_kwargs" :> V("{}")
    @@ "value_preprocessor" :> V("None") @@ "value_preprocessor_kwargs" :> V("{}")
    @@ "random_timesteps" :> V("0") @@ "learning_starts" :> V("0")
    @@ "grad_norm_clip" :> V("1.0") @@ "entropy_loss_scale" :> V("0.0")
    @@ "rewards_shaper" :> V("None") @@ "experiment" :> R(ExperimentId)

\* The library's defaults: TRPO_DEFAULT_CONFIG
TRPODefaults ==
    "rollouts" :> V("16") @@ "learning_epochs" :> V("8") @@ "mini_batches" :> V("2")
    @@ "discount_factor" :> V("0.99") @@ "lambda" :> V("0.99")
    @@ "value_learning_rate" :> V("1e-3")
    @@ "learning_rate_scheduler" :> V("None") @@ "learning_rate_scheduler_kwargs" :> V("{}")
    @@ "state_preprocessor" :> V("None") @@ "state_preprocessor_kwargs" :> V("{}")
    @@ "value_preprocessor" :> V("None") @@ "value_preprocessor_kwargs" :> V("{}")
    @@ "random_timesteps" :> V("0") @@ "learning_starts" :> V("0")
    @@ "grad_norm_clip" :> V("0.5") @@ "value_loss_scale" :> V("1.0")
    @@ "damping" :> V("0.1") @@ "max_kl_divergence" :> V("0.01")
    @@ "conjugate_gradient_steps" :> V("10") @@ "max_backtrack_steps" :> V("10")
    @@ "accept_ratio" :> V("0.5") @@ "step_fraction" :> V("1.0")
    @@ "rewards_shaper" :> V("None") @@ "experiment" :> R(ExperimentId)

Defaults(sc) == IF sc = "a2c" THEN A2CDefaults ELSE TRPODefaults

Set(path, v) == [path |-> path, val |-> v]

\* line 64: device = env.device
Devices == {"cpu", "cuda:0"}
\* {"size": env.observation_space, "device": device}
StateKwargs(dev) ==
    IF dev = "cpu" THEN "{size: env.observation_space, device: cpu}"
                   ELSE "{size: env.observation_space, device: cuda:0}"
\* {"size": 1, "device": device}
ValueKwargs(dev) ==
    IF dev = "cpu" THEN "{size: 1, device: cpu}" ELSE "{size: 1, device: cuda:0}"

\* a2c_gym_pendulumnovel.py:83-101
AssignmentsA2C(dev) == <<
    Set(<<"rollouts">>, "1024"),
    Set(<<"learning_epochs">>, "10"),
    Set(<<"mini_batches">>, "32"),
    Set(<<"discount_factor">>, "0.9"),
    Set(<<"lambda">>, "0.95"),
    Set(<<"learning_rate">>, "1e-3"),
    Set(<<"learning_rate_scheduler">>, "KLAdaptiveRL"),
    Set(<<"learning_rate_scheduler_kwargs">>, "{kl_threshold: 0.008, min_lr: 5e-4}"),
    Set(<<"random_timesteps">>, "0"),
    Set(<<"learning_starts">>, "0"),
    Set(<<"grad_norm_clip">>, "0.5"),
    Set(<<"entropy_loss_scale">>, "0.0"),
    Set(<<"state_preprocessor">>, "RunningStandardScaler"),
    Set(<<"state_preprocessor_kwargs">>, StateKwargs(dev)),
    Set(<<"value_preprocessor">>, "RunningStandardScaler"),
    Set(<<"value_preprocessor_kwargs">>, ValueKwargs(dev)),
    Set(<<"experiment", "write_interval">>, "500"),
    Set(<<"experiment", "checkpoint_interval">>, "5000") >>

\* trpo_cartpole.py:86-98
AssignmentsTRPO(dev) == <<
    Set(<<"rollouts">>, "16"),
    Set(<<"learning_epochs">>, "6"),
    Set(<<"mini_batches">>, "2"),
    Set(<<"grad_norm_clip">>, "0.5"),
    Set(<<"value_loss_scale">>, "2.0"),
    Set(<<"lambda">>, "0.95"),
    Set(<<"state_preprocessor">>, "RunningStandardScaler"),
    Set(<<"state_preprocessor_kwargs">>, StateKwargs(dev)),
    Set(<<"value_preprocessor">>, "RunningStandardScaler"),
    Set(<<"value_preprocessor_kwargs">>, ValueKwargs(dev)),
    Set(<<"experiment", "write_interval">>, "16"),
    Set(<<"experiment", "checkpoint_interval">>, "125") >>

Assignments(sc, dev) == IF sc = "a2c" THEN AssignmentsA2C(dev) ELSE AssignmentsTRPO(dev)

\* dict.copy(): a new dictionary with the same values under the same keys;
\* a value that is a reference is copied as the reference
DictCopy(h, from, to) == (to :> h[from]) @@ h

\* d[k] = v
SetItem(h, id, k, v) == [h EXCEPT ![id] = (k :> v) @@ h[id]]

\* cfg["experiment"] = {k: v}: a new dictionary in place of the nested one
SetNestedReplacing(h, id, k1, k2, v) ==
    LET n == Cfg2Id + Cardinality(DOMAIN h)
    IN  (n :> (k2 :> V(v))) @@ [h EXCEPT ![id] = (k1 :> R(n)) @@ h[id]]

\* cfg[k1][k2] = v: cfg[k1] is looked up, and the item is set in what it refers to
SetNested(h, id, k1, k2, v) == SetItem(h, h[id][k1].ref, k2, V(v))

\* cfg[k] = v
SetTop(h, id, k, v) == SetItem(h, id, k, V(v))

\* line 82 / 85: cfg = DEFAULT_CONFIG.copy()
CopyDefaults ==
    /\ pc = "copy"
    /\ heap' = DictCopy(heap, DefaultId, CfgId)
    /\ cfg' = CfgId
    /\ line' = 1
    /\ pc' = "assign" /\ op' = "copy"
    /\ UNCHANGED <<script, cfg2, device, loaderVars, envVars, policyVars, trainVars>>

\* lines 83-101 / 86-98: the next assignment
Assign ==
    /\ pc = "assign"
    /\ LET a == Assignments(script, device)[line]
       IN  heap' = IF Len(a.path) = 1
                      THEN SetTop(heap, cfg, a.path[1], a.val)
                      ELSE SetNested(heap, cfg, a.path[1], a.path[2], a.val)
    /\ line' = line + 1
    /\ pc' = IF line = Len(Assignments(script, device)) THEN "configured" ELSE "assign"
    /\ op' = "assign"
    /\ UNCHANGED <<script, cfg, cfg2, device, loaderVars, envVars, policyVars, trainVars>>

\* a second configuration built the same way afterwards: DEFAULT_CONFIG.copy()
\* once more, then the same assignments; the first configuration is kept
CopyAgain ==
    /\ pc = "configured"
    /\ cfg2 = 0
    /\ heap' = DictCopy(heap, DefaultId, Cfg2Id)
    /\ cfg2' = cfg
    /\ cfg' = Cfg2Id
    /\ line' = 1
    /\ pc' = "assign" /\ op' = "copy2"
    /\ UNCHANGED <<script, device, loaderVars, envVars, policyVars, trainVars>>

InitCfg ==
    /\ script \in Scripts /\ pc = "copy" /\ op = "none"
    /\ heap = (DefaultId :> Defaults(script)) @@ (ExperimentId :> ExperimentDefaults)
    /\ cfg = 0 /\ cfg2 = 0 /\ line = 0 /\ device \in Devices
    /\ IdleLoader /\ IdleEnv /\ IdlePolicy /\ IdleTrain

NextCfg == CopyDefaults \/ Assign \/ CopyAgain

SpecCfg == InitCfg /\ [][NextCfg]_vars

\* ---- C4

\* d[k] for a path of one key, d[k1][k2] for a path of two
Get(d, k) == IF k \in DOMAIN d THEN d[k] ELSE V("KeyError")
Lookup(h, id, path) ==
    IF Len(path) = 1 THEN Get(h[id], path[1]).val
                     ELSE Get(h[Get(h[id], path[1]).ref], path[2]).val
\* The same in the defaults as the library defines them.
DefaultLookup(sc, path) ==
    IF Len(path) = 1 THEN Defaults(sc)[path[1]].val ELSE ExperimentDefaults[path[2]]. val
\* The paths to the scalar values of the defaults.
DefaultPaths(sc) ==
    {<<k>> : k \in {x \in DOMAIN Defaults(sc) : Defaults(sc)[x].ref = 0}}
    \cup {<<"experiment", k>> : k \in DOMAIN ExperimentDefaults}
AssignedPaths(sc) == {Assignments(sc, "cpu")[i].path : i \in 1..Len(Assignments(sc, "cpu"))}

\* C4: after the block, the configuration holds the script's value at every
\* path the script assigned, and the library's default at every other one.
C4_OverridesAndDefaults ==
    pc = "configured" =>
        /\ \A i \in 1..Len(Assignments(script, device)) :
             Lookup(heap, cfg, Assignments(script, device)[i].path) = Assignments(script, device)[i].val
        /\ \A q \in DefaultPaths(script) \ AssignedPaths(script) :
             Lookup(heap, cfg, q) = DefaultLookup(script, q)
        /\ heap[cfg]["experiment"] = heap[DefaultId]["experiment"]

\* The block of the A2C script has run: write_interval is the script's 500,
\* and the nested store_separately, which it did not assign, the default.
C4_Witness ==
    /\ pc = "configured" /\ script = "a2c"
    /\ Lookup(heap, cfg, <<"experiment", "write_interval">>) = "500"
    /\ Lookup(heap, cfg, <<"experiment", "store_separately">>) = "False"
    /\ Lookup(heap, cfg, <<"rollouts">>) = "1024"

\* ---- C9

\* C9: the library's default configuration is unchanged at every key, at the
\* top level and nested, and a second copy of it sees the original defaults.
C9_DefaultsUntouched ==
    /\ \A q \in DefaultPaths(script) : Lookup(heap, DefaultId, q) = DefaultLookup(script, q)
    /\ op = "copy2" => \A q \in DefaultPaths(script) : Lookup(heap, cfg, q) = DefaultLookup(script, q)

-----------------------------------------------------------------------------
(***************************************************************************)
(* Model construction to the end of training:                              *)
(* a2c_gym_pendulumnovel.py:68-116 and trpo_cartpole.py:68-113.  The       *)
(* scripts set the sizes; the rollout memory, the agent and the trainer    *)
(* are the library's: a memory of memory_size slots written in order with  *)
(* wraparound, an agent that updates every `rollouts` recorded steps in    *)
(* learning_epochs passes over mini_batches mini-batches, and a trainer    *)
(* that runs `timesteps` iterations of act, step, record, post-interaction.*)
(* The agent update is modelled at the grain of slots of the memory: one   *)
(* slot holds the transitions of all environment instances at one step.    *)
(***************************************************************************)

\* The A2C script's memory size, rollout length and timestep budget are
\* divided by A2CScale, which keeps their ratios (1024 : 1024 : 100000 as
\* 64 : 64 : 6250); the TRPO script's are the script's own.
A2CScale == 16

\* A memory of half the rollout length.
MemorySizeHalved(sc) == IF sc = "a2c" THEN (1024 \div A2CScale) \div 2 ELSE 8

\* line 68: RandomMemory(memory_size=...)
MemorySize(sc) == IF sc = "a2c" THEN 1024 \div A2CScale ELSE 16

\* cfg["rollouts"]: a2c line 83, trpo line 86
Rollouts(sc) == IF sc = "a2c" THEN 1024 \div A2CScale ELSE 16

\* cfg["learning_epochs"]: a2c line 84, trpo line 87
LearningEpochs(sc) == IF sc = "a2c" THEN 10 ELSE 6

\* cfg["mini_batches"]: a2c line 85, trpo line 88
MiniBatches(sc) == IF sc = "a2c" THEN 32 ELSE 2

\* cfg["learning_starts"]: a2c line 92; the library's default in trpo
LearningStarts(sc) == 0

\* A budget one step short.
TimestepsShort(sc) == IF sc = "a2c" THEN 100000 \div A2CScale - 1 ELSE 2499

\* cfg_trainer["timesteps"]: a2c line 112, trpo line 109
Timesteps(sc) == IF sc = "a2c" THEN 100000 \div A2CScale ELSE 2500

\* Every script re-initializes its models' parameters.
AlwaysInitParameters(sc) == TRUE

\* trpo lines 78-79: only the TRPO script calls model.init_parameters
HasInitParameters(sc) == sc = "trpo"

SlotIds(sc) == 0..(MemorySize(sc) - 1)

\* memory.sample_all(mini_batches): the slots in order, cut into batches
\* of memory_size // mini_batches
BatchSize(sc) == MemorySize(sc) \div MiniBatches(sc)
NumBatches(sc) == MemorySize(sc) \div BatchSize(sc)

\* Batches that each reach one slot into the next.
InBatchOverlapping(sc, b, k) == (b - 1) * BatchSize(sc) <= k /\ k <= b * BatchSize(sc)

\* Slot k is in mini-batch b.
InBatch(sc, b, k) == (b - 1) * BatchSize(sc) <= k /\ k < b * BatchSize(sc)

\* The loop `for timestep in range(timesteps)` is over.
LoopOver(sc, t) == t >= Timesteps(sc)

\* models_a2c[...] = Policy(...), Value(...) / models_trpo = {...}
ConstructModels ==
    /\ pc = "models"
    /\ params' = [policy |-> 1, value |-> 1]
    /\ pc' = IF HasInitParameters(script) THEN "init_parameters" ELSE "agent"
    /\ op' = "construct"
    /\ UNCHANGED <<script, loaderVars, envVars, policyVars, cfgVars, timestep, envSteps,
                   memory_index, filled, slots, lost, rollout, updates, epoch, batch,
                   feeds, epochFeeds>>

\* trpo lines 78-79: for model in models_trpo.values(): model.init_parameters(...)
InitParameters ==
    /\ pc = "init_parameters"
    /\ params' = [policy |-> params.policy + 1, value |-> params.value + 1]
    /\ pc' = "agent"
    /\ op' = "init_parameters"
    /\ UNCHANGED <<script, loaderVars, envVars, policyVars, cfgVars, timestep, envSteps,
                   memory_index, filled, slots, lost, rollout, updates, epoch, batch,
                   feeds, epochFeeds>>

\* agent = A2C(...) / TRPO(...), trainer = SequentialTrainer(...): the agent
\* takes the models and the memory, whose slots are allocated empty
InstantiateAgent ==
    /\ pc = "agent"
    /\ slots' = [k \in SlotIds(script) |-> "empty"]
    /\ feeds' = [k \in SlotIds(script) |-> 0]
    /\ epochFeeds' = [k \in SlotIds(script) |-> 0]
    /\ memory_index' = 0 /\ filled' = FALSE
    /\ pc' = "train"
    /\ op' = "agent"
    /\ UNCHANGED <<script, loaderVars, envVars, policyVars, cfgVars, timestep, envSteps,
                   lost, rollout, updates, epoch, batch, params>>

\* trainer.train(): the environment is reset and the loop entered
TrainBegin ==
    /\ pc = "train"
    /\ timestep' = 0
    /\ pc' = IF LoopOver(script, 0) THEN "returned" ELSE "act"
    /\ op' = "reset"
    /\ UNCHANGED <<script, loaderVars, envVars, policyVars, cfgVars, envSteps,
                   memory_index, filled, slots, lost, rollout, updates, epoch, batch,
                   feeds, epochFeeds, params>>

\* agent.act(states): the policy is evaluated
Act ==
    /\ pc = "act"
    /\ pc' = "step"
    /\ op' = "act"
    /\ UNCHANGED <<script, loaderVars, envVars, policyVars, cfgVars, trainVars>>

\* env.step(actions), then agent.record_transition(...): the transition is
\* written at memory_index, which advances and wraps at memory_size
StepAndRecord ==
    /\ pc = "step"
    /\ envSteps' = envSteps + 1
    /\ lost' = IF slots[memory_index] = "fresh" THEN lost + 1 ELSE lost
    /\ slots' = [slots EXCEPT ![memory_index] = "fresh"]
    /\ memory_index' = IF memory_index + 1 >= MemorySize(script) THEN 0 ELSE memory_index + 1
    /\ filled' = (filled \/ memory_index + 1 >= MemorySize(script))
    /\ pc' = "post"
    /\ op' = "record"
    /\ UNCHANGED <<script, loaderVars, envVars, policyVars, cfgVars, timestep, rollout,
                   updates, epoch, batch, feeds, epochFeeds, params>>

\* env.step(actions) raises: nothing handles it, the script ends
StepFails ==
    /\ pc = "step"
    /\ pc' = "crashed"
    /\ op' = "raise"
    /\ UNCHANGED <<script, loaderVars, envVars, policyVars, cfgVars, trainVars>>

\* The end of an iteration: the loop variable advances.
Advance(t) == IF LoopOver(script, t + 1) THEN "returned" ELSE "act"

\* agent.post_interaction: the rollout counter advances; every `rollouts`
\* steps, once learning has started, the update begins
PostInteraction ==
    /\ pc = "post"
    /\ rollout' = rollout + 1
    /\ IF (rollout + 1) % Rollouts(script) = 0 /\ timestep >= LearningStarts(script)
          THEN /\ pc' = "update"
               /\ epoch' = 1 /\ batch' = 1
               /\ feeds' = [k \in SlotIds(script) |-> 0]
               /\ epochFeeds' = [k \in SlotIds(script) |-> 0]
               /\ UNCHANGED timestep
          ELSE /\ pc' = Advance(timestep)
               /\ timestep' = timestep + 1
               /\ UNCHANGED <<epoch, batch, feeds, epochFeeds>>
    /\ op' = "post"
    /\ UNCHANGED <<script, loaderVars, envVars, policyVars, cfgVars, envSteps,
                   memory_index, filled, slots, lost, updates, params>>

\* update: one mini-batch of one learning epoch is fed to the learning step
\* and the optimizer steps; after the last one the iteration ends
LearnStep ==
    /\ pc = "update"
    /\ LET fresh == (batch = 1)
       IN  /\ feeds' = [k \in SlotIds(script) |->
                          IF InBatch(script, batch, k) THEN feeds[k] + 1 ELSE feeds[k]]
           /\ epochFeeds' = [k \in SlotIds(script) |->
                               IF InBatch(script, batch, k)
                                  THEN (IF fresh THEN 0 ELSE epochFeeds[k]) + 1
                                  ELSE IF fresh THEN 0 ELSE epochFeeds[k]]
           /\ slots' = [k \in SlotIds(script) |->
                          IF InBatch(script, batch, k) THEN "used" ELSE slots[k]]
    /\ params' = [policy |-> params.policy + 1, value |-> params.value + 1]
    /\ IF batch < NumBatches(script)
          THEN batch' = batch + 1 /\ UNCHANGED <<epoch, updates, timestep, pc>>
          ELSE IF epoch < LearningEpochs(script)
                  THEN batch' = 1 /\ epoch' = epoch + 1 /\ UNCHANGED <<updates, timestep, pc>>
                  ELSE /\ updates' = updates + 1
                       /\ timestep' = timestep + 1
                       /\ pc' = Advance(timestep)
                       /\ UNCHANGED <<epoch, batch>>
    /\ op' = "learn"
    /\ UNCHANGED <<script, loaderVars, envVars, policyVars, cfgVars, envSteps,
                   memory_index, filled, lost, rollout>>

InitTrain ==
    /\ script \in Scripts /\ pc = "models" /\ op = "none"
    /\ IdleLoader /\ IdleEnv /\ IdlePolicy /\ IdleCfg /\ IdleTrain

NextTrain ==
    \/ ConstructModels \/ InitParameters \/ InstantiateAgent \/ TrainBegin
    \/ Act \/ StepAndRecord \/ StepFails \/ PostInteraction \/ LearnStep

SpecTrain == InitTrain /\ [][NextTrain]_vars

\* A script runs its next statement: the trainer's loop is never suspended.
FairSpecTrain == SpecTrain /\ WF_vars(NextTrain)

\* The sizes the scripts set, as the properties below name them.
ClaimedMemorySize(sc)     == IF sc = "a2c" THEN 1024 \div A2CScale ELSE 16
ClaimedRollouts(sc)       == IF sc = "a2c" THEN 1024 \div A2CScale ELSE 16
ClaimedTimesteps(sc)      == IF sc = "a2c" THEN 100000 \div A2CScale ELSE 2500

\* The agent and its memory exist.
Training == pc \in {"train", "act", "step", "post", "update", "returned", "crashed"}

\* ---- C5

\* The transitions the memory holds, per environment instance.
Held == Cardinality({k \in DOMAIN slots : slots[k] # "empty"})

\* C5: with memory_size equal to rollouts (1024/1024, 16/16) the memory never
\* holds more than memory_size transitions per environment, and
\* record_transition never overwrites a transition that no update has used.
C5_WithinCapacity ==
    Training =>
        /\ Held <= ClaimedMemorySize(script)
        /\ Held = (IF filled THEN ClaimedMemorySize(script) ELSE memory_index)
        /\ memory_index < ClaimedMemorySize(script)
        /\ lost = 0

\* The TRPO memory has wrapped around: after an update, record_transition
\* has written over the first slot again.
C5_Witness ==
    /\ script = "trpo" /\ op = "record" /\ filled /\ updates >= 1
    /\ memory_index = 1 /\ slots[0] = "fresh" /\ slots[1] = "used"

\* ---- C6

C7_TrainRunsTheBudget ==
    /\ <>(pc \in {"returned", "crashed"})
    /\ [](pc = "returned" => envSteps = ClaimedTimesteps(script))
    /\ [](envSteps <= ClaimedTimesteps(script))
    /\ [](Training /\ pc \notin {"post", "update"}
            => updates = envSteps \div ClaimedRollouts(script))
    /\ [](pc \in {"post", "update"}
            => updates = (envSteps - 1) \div ClaimedRollouts(script))

\* train() of the TRPO script has returned after 2500 steps and 156 updates.
C7_Witness ==
    /\ script = "trpo" /\ pc = "returned" /\ envSteps = 2500 /\ updates = 156

\* ---- C8

Unbuilt == [policy |-> 0, value |-> 0]

\* C8 as stated: once the models are constructed, only the optimizer step
\* inside the agent's update changes their parameters.
C8_OnlyOptimizerMutates ==
    [][(params # Unbuilt /\ params' # params) => op' = "learn"]_vars

\* C8 amended: once the models are constructed, their parameters are changed
\* only by the TRPO script's own init_parameters call, before the agent is
\* created, and by the optimizer step inside the agent's update.
C8_InitOrOptimizerMutates ==
    [][(params # Unbuilt /\ params' # params) =>
          \/ op' = "learn" /\ pc = "update"
          \/ op' = "init_parameters" /\ script = "trpo" /\ ~ Training]_vars

\* The TRPO script has re-initialized its parameters and an update has since
\* changed them again.
C8_Witness ==
    /\ script = "trpo" /\ op = "learn" /\ updates = 1
    /\ params.policy > 2 /\ params.value > 2

=============================================================================
